---- MODULE Spec2Model ----
(***************************************************************************)
(* Model of scripts/download_pge_ica_timeseries.py: the driver loop, the   *)
(* inventory scanner get_csv_list and the worker process_zip, together     *)
(* with the environment the script runs against (the browser that drops    *)
(* archives into the download directory, the filesystem, the operator who  *)
(* stops and re-runs the script).                                          *)
(*                                                                         *)
(* A Python string is a sequence of tokens: a feeder id is <<"A">>, a      *)
(* file name is id \o <<".csv">>, a path is the tokens of the directory,   *)
(* a separator and the file name.                                          *)
(***************************************************************************)
EXTENDS Integers, Sequences, FiniteSets, TLC

\* ------------------------------------------------------------ bounds
\* longest identifier column read from the shapefile (duplicates allowed)
MaxLen == 2
\* number of times the operator runs the script
MaxRuns == 2
\* the model counts how often a credential was typed into the login form up to
\* this number ("this many times or more")
MaxTyped == 2

\* ------------------------------------------------------------ program constants
\* line 58: number of attempts of every retry loop
tries == 20

\* feeder identifiers that can occur in the shapefile or as file stems
FeederIDs == {<<"A">>, <<"B">>}

VARIABLES
    os_sep,              \* the platform's path separator (os.sep)
    feeder_id_list,      \* line 69: the FeederID column, a sequence
    df_dir,              \* output directory: id -> "none" | "partial" | "complete"
    download_dir,        \* download directory: id -> "none" | "good" | "corrupt"
    inflight,            \* ids whose <id>.zip the browser is still downloading
    pc,                  \* position of the script
    run,                 \* which run of the script this is
    csvs_missing,        \* line 190: the Missing Set of this run
    todo,                \* ids of csvs_missing the for loop has not reached
    id,                  \* the worker's parameter
    i,                   \* the worker's loop counter
    badzip,              \* line 129 / 143
    df,                  \* local df of process_zip: "unbound" | "table"
    csvs_missing_final,  \* line 203: the reported list
    last_call,           \* the call the worker made last: "get" (driver.get),
                         \* "open" (ZipFile), "remove" (os.remove), or "none"
    attempts,            \* how many calls of that kind its retry loop has made
    invoked,             \* id -> number of process_zip calls in this run
    navigated,           \* ids with a successful driver.get in this run
    succeeded,           \* ids whose process_zip returned after writing, this run
    scanned,             \* line 187 has run in this run
    csv_start,           \* ids with <id>.csv in df_dir when this run started
    prev,                \* the previous run's Missing Set and successes
    typed,               \* what the running call of login has typed into the form:
                         \* how many times the username, how many times the password
    submitted,           \* the submit control of the login form was clicked, this run
    obs                  \* what the current invocation of the worker has done:
                         \* gets: successful driver.get calls, removed: successful
                         \* os.remove calls, written: to_csv calls, zip: where the
                         \* <id>.zip now present or being downloaded comes from
                         \* ("new": a navigation of this invocation, "old": earlier),
                         \* read: the zip value of the archive df was read from

vars == <<os_sep, feeder_id_list, df_dir, download_dir, inflight, pc, run,
          csvs_missing, todo, id, i, badzip, df, csvs_missing_final,
          attempts, last_call, invoked, navigated, succeeded, scanned, csv_start, prev,
          typed, submitted, obs>>

login_vars == <<typed, submitted>>
env_vars == <<os_sep, feeder_id_list, df_dir, download_dir, inflight>>
hist_vars == <<attempts, last_call, invoked, navigated, succeeded, scanned, csv_start, prev>>

\* ------------------------------------------------------------ strings
\* does t occur in s at position k
OccursAt(s, t, k) ==
    /\ k + Len(t) - 1 <= Len(s)
    /\ \A j \in 1..Len(t) : s[k + j - 1] = t[j]

\* str.replace(old, ""): every non-overlapping occurrence of old removed, left to right
RECURSIVE StrRemove(_, _)
StrRemove(s, old) ==
    IF s = <<>> THEN <<>>
    ELSE IF OccursAt(s, old, 1)
         THEN StrRemove(SubSeq(s, Len(old) + 1, Len(s)), old)
         ELSE <<Head(s)>> \o StrRemove(Tail(s), old)

\* set(list)
ToSet(s) == {s[k] : k \in DOMAIN s}

\* os.getcwd() after os.chdir(df_dir), line 71
getcwd == IF os_sep = "\\" THEN <<"C:", "\\", "d">> ELSE <<"/", "d">>

\* glob.glob(os.getcwd() + "/*.csv"), line 170: one path per file of df_dir whose
\* name ends in .csv, the directory joined to the name with the platform's separator
glob_csv(dir) == {getcwd \o <<os_sep>> \o x \o <<".csv">> : x \in {y \in FeederIDs : dir[y] # "none"}}

\* lines 171-172 applied to one path
strip_path(sub) == StrRemove(StrRemove(sub, getcwd \o <<"\\">>), <<".csv">>)

\* get_csv_list(), lines 162-174 (as a set: its only use is set(csvs_dl))
get_csv_list(dir) == {strip_path(sub) : sub \in glob_csv(dir)}

\* lines 190 and 203: list(set(feeder_id_list.tolist()) - set(csvs_dl))
missing_of(dir) == ToSet(feeder_id_list) \ get_csv_list(dir)

\* ------------------------------------------------------------ Python truth
\* what "not b" would give: 0 for True, 1 for False
LogicalNot(b) == IF b THEN 0 ELSE 1
\* ~b on a bool: the bitwise complement of int(b)
Invert(b) == IF b THEN -2 ELSE -1
\* truth value of an int in an if
Truthy(n) == n # 0

\* a df that is always readable, as if it were assigned before the extract loop
BoundAlways(d) == TRUE
\* reading the local df at line 160 succeeds only when it was assigned at line 135
Bound(d) == d # "unbound"

\* a removal that leaves the archive in place
os_remove_noop(dir, x) == dir
\* os.remove(download_dir + id + ".zip") on an existing archive
os_remove(dir, x) == [dir EXCEPT ![x] = "none"]

\* ------------------------------------------------------------ initial state
NoCount == [x \in FeederIDs |-> 0]
NoObs == [gets |-> 0, removed |-> 0, written |-> 0, zip |-> "none", read |-> "none"]
NoTyped == [username |-> 0, password |-> 0]
NoPrev == [scanned |-> FALSE, missing |-> {}, succeeded |-> {}]

SeqsUpTo(S, n) == UNION {[1..k -> S] : k \in 0..n}

Init ==
    /\ os_sep \in {"\\", "/"}
    /\ feeder_id_list \in SeqsUpTo(FeederIDs, MaxLen)
    /\ df_dir \in [FeederIDs -> {"none", "complete"}]
    /\ download_dir \in [FeederIDs -> {"none", "good", "corrupt"}]
    /\ inflight = {}
    /\ pc = "login"
    /\ run = 1
    /\ csvs_missing = {}
    /\ todo = {}
    /\ id = <<>>
    /\ i = 0
    /\ badzip = FALSE
    /\ df = "unbound"
    /\ csvs_missing_final = {}
    /\ attempts = 0
    /\ last_call = "none"
    /\ invoked = NoCount
    /\ navigated = {}
    /\ succeeded = {}
    /\ scanned = FALSE
    /\ csv_start = {x \in FeederIDs : df_dir[x] # "none"}
    /\ prev = NoPrev
    /\ typed = NoTyped
    /\ submitted = FALSE
    /\ obs = NoObs

\* ------------------------------------------------------------ login, lines 74-100
\* one more character sequence sent to a field of the form
TypeInto(field) == [typed EXCEPT ![field] = IF @ < MaxTyped THEN @ + 1 ELSE @]

\* what the driver does when login returns after checking that it had submitted
AfterLoginChecked(ok) == IF ok THEN "scan" ELSE "crashed"
\* lines 100 and 184-187: login returns nothing, the driver goes on to the inventory scan
AfterLogin(ok) == "scan"

\* lines 90-98: one iteration of the login loop. Each of the three lookups may
\* raise NoSuchElementException; what was typed before it stays in the form.
LoginAttempt ==
    /\ pc = "login"
    /\ i < tries
    /\ last_call' = "login"
    /\ attempts' = (IF last_call = "login" THEN attempts ELSE 0) + 1
    /\ \E outcome \in {"no_username", "no_password", "no_submit", "clicked"} :
        /\ typed' = CASE outcome = "no_username" -> typed
                      [] outcome = "no_password" -> TypeInto("username")
                      [] OTHER -> [TypeInto("username") EXCEPT !["password"] =
                                       IF @ < MaxTyped THEN @ + 1 ELSE @]
        /\ IF outcome = "clicked"
           THEN \* lines 94-95
                /\ submitted' = TRUE
                /\ i' = i
                /\ pc' = "login_sleep"
           ELSE \* lines 96-98
                /\ UNCHANGED submitted
                /\ i' = i + 1
                /\ pc' = IF i + 1 < tries THEN "login" ELSE "login_sleep"
    /\ UNCHANGED <<env_vars, run, csvs_missing, todo, id, badzip, df,
                   csvs_missing_final, invoked, navigated, succeeded, scanned,
                   csv_start, prev>>
    /\ UNCHANGED obs

\* line 100 and the return to line 187; the form is no longer looked at
LoginReturn ==
    /\ pc = "login_sleep"
    /\ pc' = AfterLogin(submitted)
    /\ i' = 0
    /\ typed' = NoTyped
    /\ UNCHANGED <<env_vars, run, csvs_missing, todo, id, badzip, df,
                   csvs_missing_final, hist_vars, submitted>>
    /\ UNCHANGED obs

\* ------------------------------------------------------------ driver, lines 186-205
\* lines 187-191
Scan ==
    /\ pc = "scan"
    /\ csvs_missing' = missing_of(df_dir)
    /\ todo' = missing_of(df_dir)
    /\ scanned' = TRUE
    /\ pc' = "loop"
    /\ UNCHANGED <<env_vars, attempts, last_call, invoked, navigated, succeeded,
                   csv_start, prev, run, id, i, badzip, df, csvs_missing_final>>
    /\ UNCHANGED login_vars
    /\ UNCHANGED obs

\* lines 193-196: the for loop takes the next id, in the set's order, and calls
\* process_zip; line 115
Invoke ==
    /\ pc = "loop"
    /\ \E x \in todo :
        /\ todo' = todo \ {x}
        /\ id' = x
        /\ invoked' = [invoked EXCEPT ![x] = @ + 1]
        /\ obs' = [NoObs EXCEPT !.zip = IF download_dir[x] # "none" \/ x \in inflight
                                        THEN "old" ELSE "none"]
    /\ i' = 0
    /\ badzip' = FALSE
    /\ df' = "unbound"
    /\ attempts' = 0
    /\ last_call' = "none"
    /\ pc' = "fetch"
    /\ UNCHANGED <<env_vars, run, csvs_missing, csvs_missing_final,
                   navigated, succeeded, scanned, csv_start, prev>>
    /\ UNCHANGED login_vars

\* lines 198-205
Report ==
    /\ pc = "loop"
    /\ todo = {}
    /\ csvs_missing_final' = missing_of(df_dir)
    /\ pc' = "done"
    /\ UNCHANGED <<env_vars, hist_vars, run, csvs_missing, todo, id, i, badzip, df>>
    /\ UNCHANGED login_vars
    /\ UNCHANGED obs

\* ------------------------------------------------------------ process_zip, lines 102-160
\* the worker calls driver.get ("get"), ZipFile ("open") or os.remove ("remove")
Call(kind) ==
    /\ last_call' = kind
    /\ attempts' = (IF last_call = kind THEN attempts ELSE 0) + 1

\* a fetch loop that goes round again after a successful driver.get
AfterGetOkNoBreak == "fetch"
\* line 121: break, on to line 128
AfterGetOk == "extract"

\* lines 116-121: driver.get succeeds; the browser starts downloading <id>.zip
\* unless a file of that name is already in the download directory; lines 128-129
FetchOk ==
    /\ pc = "fetch"
    /\ i < tries
    /\ Call("get")
    /\ navigated' = navigated \cup {id}
    /\ inflight' = IF download_dir[id] = "none" THEN inflight \cup {id} ELSE inflight
    /\ obs' = [obs EXCEPT !.gets = @ + 1,
                          !.zip = IF download_dir[id] = "none" /\ id \notin inflight
                                  THEN "new" ELSE @]
    /\ pc' = AfterGetOk
    /\ i' = 0
    /\ UNCHANGED <<os_sep, feeder_id_list, df_dir, download_dir, run, csvs_missing,
                   todo, id, badzip, df, csvs_missing_final,
                   invoked, succeeded, scanned, csv_start, prev>>
    /\ UNCHANGED login_vars

\* lines 122-125: NoSuchWindowException; the loop ends when i reaches tries
FetchNoSuchWindow ==
    /\ pc = "fetch"
    /\ i < tries
    /\ Call("get")
    /\ IF i + 1 < tries
       THEN i' = i + 1 /\ pc' = "fetch"
       ELSE i' = 0 /\ pc' = "extract"
    /\ UNCHANGED <<env_vars, run, csvs_missing, todo, id, badzip, df,
                   csvs_missing_final, invoked, navigated,
                   succeeded, scanned, csv_start, prev>>
    /\ UNCHANGED login_vars
    /\ UNCHANGED obs

\* a BadZipFile handler that counts the attempt like a missing file
AfterBadZipRetry(k) == k + 1
\* line 142: the loop counter after BadZipFile
AfterBadZip(k) == tries

\* lines 130-143: one attempt to open the archive and read its table
Extract ==
    /\ pc = "extract"
    /\ i < tries
    /\ Call("open")
    /\ CASE download_dir[id] = "good" ->
              \* lines 133-137
              /\ df' = "table"
              /\ obs' = [obs EXCEPT !.read = obs.zip]
              /\ i' = 0
              /\ pc' = "cleanup"
              /\ UNCHANGED badzip
         [] download_dir[id] = "corrupt" ->
              \* lines 141-143: BadZipFile
              /\ badzip' = TRUE
              /\ IF AfterBadZip(i) < tries
                 THEN i' = AfterBadZip(i) /\ pc' = "extract"
                 ELSE i' = 0 /\ pc' = "cleanup"
              /\ UNCHANGED <<df, obs>>
         [] download_dir[id] = "none" ->
              \* lines 138-140: FileNotFoundError
              /\ IF i + 1 < tries
                 THEN i' = i + 1 /\ pc' = "extract"
                 ELSE i' = 0 /\ pc' = "cleanup"
              /\ UNCHANGED <<badzip, df, obs>>
    /\ UNCHANGED <<env_vars, run, csvs_missing, todo, id, csvs_missing_final,
                   invoked, navigated, succeeded, scanned, csv_start, prev>>
    /\ UNCHANGED login_vars

\* lines 147-156: one iteration of the delete loop
Cleanup ==
    /\ pc = "cleanup"
    /\ i < tries
    /\ IF Truthy(Invert(badzip))
       THEN /\ Call("remove")
            /\ IF download_dir[id] # "none"
               THEN \* lines 151-153
                    /\ download_dir' = os_remove(download_dir, id)
                    /\ obs' = [obs EXCEPT !.removed = @ + 1, !.zip = "none"]
                    /\ i' = i
                    /\ pc' = "save"
               ELSE \* lines 154-156: FileNotFoundError
                    /\ UNCHANGED <<download_dir, obs>>
                    /\ i' = i + 1
                    /\ pc' = IF i + 1 < tries THEN "cleanup" ELSE "save"
       ELSE \* the body is skipped and i is not advanced
            UNCHANGED <<attempts, last_call, download_dir, i, pc, obs>>
    /\ UNCHANGED <<os_sep, feeder_id_list, df_dir, inflight, run, csvs_missing,
                   todo, id, badzip, df, csvs_missing_final,
                   invoked, navigated, succeeded, scanned, csv_start, prev>>
    /\ UNCHANGED login_vars

\* lines 159-160: df.to_csv opens <id>.csv for writing (creating or truncating
\* it); reading an unassigned df raises UnboundLocalError, which nothing catches
Save ==
    /\ pc = "save"
    /\ IF Truthy(Invert(badzip))
       THEN IF Bound(df)
            THEN /\ df_dir' = [df_dir EXCEPT ![id] = "partial"]
                 /\ obs' = [obs EXCEPT !.written = @ + 1]
                 /\ pc' = "writing"
            ELSE /\ pc' = "crashed"
                 /\ UNCHANGED <<df_dir, obs>>
       ELSE /\ pc' = "loop"
            /\ UNCHANGED <<df_dir, obs>>
    /\ UNCHANGED <<os_sep, feeder_id_list, download_dir, inflight, run,
                   csvs_missing, todo, id, i, badzip, df, csvs_missing_final,
                   hist_vars>>
    /\ UNCHANGED login_vars

\* line 160: to_csv has written every row and closed the file; process_zip returns
SaveDone ==
    /\ pc = "writing"
    /\ df_dir' = [df_dir EXCEPT ![id] = "complete"]
    /\ succeeded' = succeeded \cup {id}
    /\ pc' = "loop"
    /\ UNCHANGED <<os_sep, feeder_id_list, download_dir, inflight, run,
                   csvs_missing, todo, id, i, badzip, df, csvs_missing_final,
                   attempts, last_call, invoked, navigated, scanned, csv_start, prev>>
    /\ UNCHANGED login_vars
    /\ UNCHANGED obs

process_zip == FetchOk \/ FetchNoSuchWindow \/ Extract \/ Cleanup \/ Save \/ SaveDone

\* ------------------------------------------------------------ environment
Running == pc \notin {"done", "crashed", "killed"}
InWorker == pc \in {"fetch", "extract", "cleanup", "save", "writing"}

\* the browser finishes a download: <id>.zip appears in the download directory
Deliver ==
    \E x \in inflight, q \in {"good", "corrupt"} :
        /\ download_dir' = [download_dir EXCEPT ![x] = q]
        /\ inflight' = inflight \ {x}
        /\ UNCHANGED <<os_sep, feeder_id_list, df_dir, pc, run, csvs_missing, todo,
                       id, i, badzip, df, csvs_missing_final, hist_vars, login_vars, obs>>

\* lines 154-156 expect the archive to be gone when the script comes to delete it:
\* something else removes the archive of the invocation in progress
Vanish ==
    /\ InWorker
    /\ download_dir[id] # "none"
    /\ download_dir' = [download_dir EXCEPT ![id] = "none"]
    /\ UNCHANGED <<os_sep, feeder_id_list, df_dir, inflight, pc, run, csvs_missing,
                   todo, id, i, badzip, df, csvs_missing_final, hist_vars>>
    /\ UNCHANGED login_vars
    /\ obs' = [obs EXCEPT !.zip = "none"]

\* lines 50-53: the script is stopped from outside, at any point; the process and
\* its variables are gone, the two directories and the browser's downloads stay
Kill ==
    /\ Running
    /\ pc' = "killed"
    /\ todo' = {}
    /\ id' = <<>>
    /\ i' = 0
    /\ badzip' = FALSE
    /\ df' = "unbound"
    /\ attempts' = 0
    /\ last_call' = "none"
    /\ typed' = NoTyped
    /\ UNCHANGED <<env_vars, run, csvs_missing, csvs_missing_final,
                   invoked, navigated, succeeded, scanned, csv_start, prev, submitted>>
    /\ obs' = NoObs

\* lines 50-53: the operator runs the script again (lines 181-184: a new browser
\* is started and login is called)
Rerun ==
    /\ ~Running
    /\ run < MaxRuns
    /\ run' = run + 1
    /\ pc' = "login"
    /\ csvs_missing' = {}
    /\ todo' = {}
    /\ id' = <<>>
    /\ i' = 0
    /\ badzip' = FALSE
    /\ df' = "unbound"
    /\ csvs_missing_final' = {}
    /\ attempts' = 0
    /\ last_call' = "none"
    /\ invoked' = NoCount
    /\ navigated' = {}
    /\ succeeded' = {}
    /\ csv_start' = {x \in FeederIDs : df_dir[x] # "none"}
    /\ scanned' = FALSE
    /\ prev' = [scanned |-> scanned,
                missing |-> csvs_missing, succeeded |-> succeeded]
    /\ typed' = NoTyped
    /\ submitted' = FALSE
    /\ UNCHANGED env_vars
    /\ obs' = NoObs

Next ==
    \/ LoginAttempt
    \/ LoginReturn
    \/ Scan
    \/ Invoke
    \/ Report
    \/ FetchOk
    \/ FetchNoSuchWindow
    \/ Extract
    \/ Cleanup
    \/ Save
    \/ SaveDone
    \/ Deliver
    \/ Vanish
    \/ Kill
    \/ Rerun

Spec == Init /\ [][Next]_vars

\* ------------------------------------------------------------ properties
\* the Feeder ID Universe and the files really present in the output directory
Universe == ToSet(feeder_id_list)
Present == {x \in FeederIDs : df_dir[x] # "none"}

\* C1: process_zip never raises an exception to the driver loop, whatever the
\* outcomes of its phases: the script is never ended by an exception of the worker.
C1_WorkerNeverRaises == pc # "crashed"

\* C2: a feeder whose archive is corrupt does not stop the pass: an invocation
\* that marked its archive corrupt returns to the driver loop, it never ends the run.
C2_CorruptDoesNotStopPass == badzip => pc # "crashed"

\* C3: no partial artifacts: a step changes the output directory only when it is
\* the write of an invocation whose extract phase read the table, for an archive
\* not marked corrupt, and then it changes only <id>.csv of that invocation.
C3_NoPartialArtifacts ==
    [][df_dir' # df_dir =>
        /\ pc \in {"save", "writing"}
        /\ df = "table"
        /\ ~badzip
        /\ \A x \in FeederIDs \ {id} : df_dir'[x] = df_dir[x]]_vars

\* C3 witness: an invocation for a feeder that already had an output file found
\* the archive corrupt and is over, and the output file is as it was.
C3_Witness == pc = "crashed" /\ badzip /\ df_dir[id] = "complete"

\* C4: after a successful invocation for X, X.csv exists (completely written) and
\* no X.zip is in the download directory.
C4_SuccessLeavesCsvAndNoZip ==
    \A x \in succeeded : df_dir[x] = "complete" /\ download_dir[x] = "none"

\* C4 witness: an invocation has returned after writing, and its delete loop had
\* used all its attempts.
C4_Witness ==
    /\ pc = "loop"
    /\ id \in succeeded
    /\ last_call = "remove"
    /\ attempts = tries
    /\ i = tries

\* C5: idempotence: a later run navigates to no feeder whose output file was
\* present when that run started, and its Missing Set is within the previous
\* run's Missing Set minus what the previous run wrote.
C5_Idempotent ==
    run > 1 =>
        /\ navigated \cap csv_start = {}
        /\ csvs_missing \cap csv_start = {}
        /\ (scanned /\ prev.scanned) => csvs_missing \subseteq (prev.missing \ prev.succeeded)

\* C6: in a pass that ran to its report, the worker was invoked exactly for the
\* Universe minus the feeders whose output file was present at the start, once
\* each; and after a run that started with an empty output directory every
\* feeder of the Universe has its file and the report is empty.
C6_ExactlyTheMissing ==
    pc = "done" =>
        /\ {x \in FeederIDs : invoked[x] > 0} = Universe \ csv_start
        /\ \A x \in FeederIDs : invoked[x] <= 1
        /\ csv_start = {} => (Universe \subseteq Present /\ csvs_missing_final = {})

\* C7: whenever a run has ended (report printed, exception, or stopped from
\* outside) or is about to scan, no output file is truncated.
C7_CheckpointComplete ==
    (~Running \/ pc = "scan") => \A x \in FeederIDs : df_dir[x] # "partial"

\* C8: when the archive was marked corrupt the worker makes no delete call.
C8_NoDeleteWhenCorrupt == badzip => last_call # "remove"

\* C9: the reported list is exactly the feeders of the Universe with no output
\* file at that moment.
C9_ReportIsMissing ==
    pc = "done" => csvs_missing_final = Universe \ Present

\* rank of a worker position: every step of process_zip lowers it
Rank ==
    CASE pc = "fetch" -> 4 * (tries + 1) + (tries - i)
      [] pc = "extract" -> 3 * (tries + 1) + (tries - i)
      [] pc = "cleanup" -> 2 * (tries + 1) + (tries - i)
      [] pc = "save" -> 2
      [] pc = "writing" -> 1
      [] OTHER -> 0

\* C10: every invocation terminates: no retry loop makes more than `tries` calls,
\* the worker can always take a step that changes its state until it has ended,
\* and every such step brings it nearer to its end.
C10_WorkerTerminates ==
    /\ [](attempts <= tries /\ i <= tries)
    /\ [](InWorker => ENABLED <<process_zip>>_vars)
    /\ [][process_zip => Rank' < Rank]_vars

\* C10 witness: the delete loop is running for an archive marked corrupt.
C10_Witness == pc = "cleanup" /\ badzip /\ last_call = "remove" /\ attempts = tries - 1

\* C11: login makes at most `tries` attempts and stops retrying once it has
\* clicked submit; when every attempt failed it still returns, and the driver
\* goes on to the inventory scan as it does after a login that submitted.
C11_LoginGivesUpSilently ==
    /\ [](pc \in {"login", "login_sleep"} => attempts <= tries)
    /\ [](submitted => pc # "login")
    /\ [][(pc = "login_sleep" /\ pc' \notin {"login_sleep", "killed"}) => pc' = "scan"]_vars

\* C11 witness: the worker has been invoked in a run whose login never submitted.
C11_Witness == pc = "fetch" /\ ~submitted

\* C12: get_csv_list returns exactly the identifiers X with a file X.csv in the
\* output directory, each equal to the feeder identifier: so it is for the
\* directory the driver has at lines 187 and 200.
C12_ScanReturnsPresent ==
    pc \in {"loop", "done"} => get_csv_list(df_dir) = Present

\* the step is a call of ZipFile by the worker
OpenCall == last_call' = "open" /\ <<last_call, attempts>>' # <<last_call, attempts>>

\* C13: in the extract phase a missing archive leads to another open attempt
\* while fewer than `tries` were made, and a bad archive ends the phase at
\* once: the feeder is marked corrupt and no open is attempted once it is.
C13_BadZipEndsExtract ==
    [][OpenCall =>
        /\ ~badzip
        /\ attempts' <= tries
        /\ download_dir[id] = "corrupt" => (badzip' /\ pc' = "cleanup")
        /\ (download_dir[id] = "none" /\ attempts' < tries) => (pc' = "extract" /\ ~badzip')
        /\ (download_dir[id] = "none" /\ attempts' = tries) => pc' = "cleanup"]_vars

\* C13 witness: the archive was missing on the first open and bad on the
\* second, and the extract phase is over after those two attempts.
C13_Witness == pc = "cleanup" /\ badzip /\ last_call = "open" /\ attempts = 2

\* C14: within one invocation the steps come in the order fetch, extract,
\* delete, write: at most one navigation succeeds and the fetch phase is over
\* once it has, at most one deletion succeeds, at most one output file is
\* written, nothing is opened before the fetch phase has ended or deleted
\* before the extract phase has ended, and nothing is written while the delete
\* phase has not ended.
C14_PhasesInOrder ==
    /\ obs.gets <= 1
    /\ obs.removed <= 1
    /\ obs.written <= 1
    /\ obs.gets = 1 => pc # "fetch"
    /\ pc = "fetch" => last_call \in {"none", "get"}
    /\ pc = "extract" => (last_call \in {"get", "open"} /\ obs.removed = 0)
    /\ pc \in {"fetch", "extract", "cleanup", "save"} => obs.written = 0
    /\ obs.written = 1 => pc \in {"writing", "loop", "done"}

\* C14 witness: an invocation has navigated, deleted the archive and is writing.
C14_Witness ==
    pc = "writing" /\ obs.gets = 1 /\ obs.removed = 1 /\ obs.written = 1

\* C15: an invocation writes X.csv only from an archive that a successful
\* navigation of the same invocation produced, never from one that was there
\* before or when no navigation succeeded.
C15_OnlyFreshArchive == obs.written > 0 => (obs.read = "new" /\ obs.gets = 1)

\* C16: when login has clicked submit, the username and the password have each
\* been typed into the form exactly once.
C16_TypedOnce ==
    (pc = "login_sleep" /\ submitted) => typed = [username |-> 1, password |-> 1]

====
